---- MODULE Spec2Model ----
(***************************************************************************)
(* LRUCache of ceramicnetwork/least-recent: a fixed-capacity key-value     *)
(* cache whose doubly-linked recency list lives in two pointer arrays      *)
(* (forward, backward) beside K, V and the key index `items`.              *)
(***************************************************************************)
EXTENDS Integers, Sequences, FiniteSets, TLC

\* ------------------------------------------------------------------ bounds

\* Largest capacity of the caches the operations are explored on.
MaxCapacity == 2

\* Largest numerator of the fractions n/1, n/2 passed to the constructor.
MaxNumerator == 12

\* Longest array of pairs passed to from().
MaxPairs == 3

\* The longest sequence of calls compared after clear().
MaxDepth == 2

\* How deep the notifications nest when handlers call the cache.
MaxNesting == 1

\* How far around 2^8, 2^16 and 2^32 (and above 0) the sizes passed to
\* getPointerArray reach.
MaxOffset == 3

\* ------------------------------------------------------- JavaScript values

\* The value `undefined` where a pointer is expected (a missing property).
Undefined == -1

\* The function object Object.prototype.toString, which `{}` inherits and
\* this.items["toString"] therefore yields.
ObjectPrototypeToString == -2

\* What the index holds for a name that is no own property of it: an own
\* property can hold undefined, which is another thing.
NoProperty == -3

\* A key of type number (text is its decimal form) or of type string.
Num(t) == [type |-> "number", text |-> t]
Str(t) == [type |-> "string", text |-> t]

\* What a hole of `new Array(capacity)` reads as.
NoKey == [type |-> "undefined", text |-> "undefined"]
NoValue == "undefined"

\* The keys and values the calls are made with: numbers and strings, among
\* them the falsy number 0, the number 1 beside the string "1", and the
\* name of a property every object inherits.
Keys == {Num("0"), Num("1"), Str("1"), Str("a"), Str("b"), Str("c"),
         Str("toString")}
Vals == {"v1", "v2"}

\* Property access obj[key] converts the key to a property name: a number
\* to its decimal digits, a string to itself.
ToPropertyKey(k) == k.text

PropertyNames == {ToPropertyKey(k) : k \in Keys \cup {NoKey}}

\* The property names every `{}` inherits from Object.prototype.
ObjectPrototype == {"toString"}

\* JavaScript truthiness of a key: undefined, 0 and "" are falsy.
Truthy(k) ==
  /\ k.type # "undefined"
  /\ ~(k.type = "number" /\ k.text = "0")
  /\ ~(k.type = "string" /\ k.text = "")

\* ------------------------------------------------------- getPointerArray

\* TLC's integers are 32-bit, and the code's thresholds reach 2^32 - 1: a
\* number n >= 0 is held as two 16-bit limbs <<hi, lo>>, n = hi * 2^16 + lo.
Limb == 2 ^ 16

Limbs(n) == <<n \div Limb, n % Limb>>

\* a <= b on limbs.
Leq(a, b) == a[1] < b[1] \/ (a[1] = b[1] /\ a[2] <= b[2])

\* n - 1 on limbs; 0 - 1 is held as <<-1, Limb - 1>>.
Pred(a) == IF a[2] > 0 THEN <<a[1], a[2] - 1>> ELSE <<a[1] - 1, Limb - 1>>

MAX_8BIT_INTEGER == <<0, 255>>
MAX_16BIT_INTEGER == <<0, 65535>>
MAX_32BIT_INTEGER == <<65535, 65535>>

\* A choice that compares size, not size - 1, with the maxima.
getPointerArray_SizeNotIndex(size) ==
  IF Leq(size, MAX_8BIT_INTEGER) THEN 8
  ELSE IF Leq(size, MAX_16BIT_INTEGER) THEN 16
  ELSE IF Leq(size, MAX_32BIT_INTEGER) THEN 32
  ELSE 0

\* The bit width of the typed array chosen for `size` (on limbs), 0 when
\* the function throws.
getPointerArray(size) ==
  LET maxIndex == Pred(size) IN
  IF Leq(maxIndex, MAX_8BIT_INTEGER) THEN 8
  ELSE IF Leq(maxIndex, MAX_16BIT_INTEGER) THEN 16
  ELSE IF Leq(maxIndex, MAX_32BIT_INTEGER) THEN 32
  ELSE 0

\* -------------------------------------------------------------- storage

Slots(capacity) == 0 .. (capacity - 1)

\* The indices the code reads and writes: the slots, the numbers at or
\* beyond capacity that a caller of splayOnTop can pass, and the two
\* property names "undefined" and String(Object.prototype.toString) that a
\* pointer which is no number turns into.
Indices(capacity) ==
  Slots(capacity) \cup Slots(MaxCapacity)
    \cup {Undefined, ObjectPrototypeToString}

\* What a typed array of the given width stores for v: a non-number
\* (undefined, a function) converts to NaN and is stored as 0.
ToUint(v, width) == IF v < 0 THEN 0 ELSE v % (2 ^ width)

\* The same for an index held on limbs: v modulo 2^width.
ToUintLimbs(v, width) ==
  IF width = 8 THEN <<0, v[2] % (2 ^ 8)>>
  ELSE IF width = 16 THEN <<0, v[2]>>
  ELSE <<v[1] % Limb, v[2]>>

\* arr[i] = v on a typed array: an element write converts v, a write at a
\* number at or beyond the length is dropped, a write to any other property
\* name keeps v as it is.
StorePointer(c, arr, i, v) ==
  IF i \in Slots(c.capacity)
  THEN [arr EXCEPT ![i] = ToUint(v, c.width)]
  ELSE IF i >= c.capacity THEN arr
  ELSE [arr EXCEPT ![i] = v]

\* this.items[key]: the own property, else the inherited one, else undefined.
Lookup(c, key) ==
  LET name == ToPropertyKey(key) IN
  IF c.items[name] # NoProperty THEN c.items[name]
  ELSE IF name \in ObjectPrototype THEN ObjectPrototypeToString
  ELSE Undefined

\* ------------------------------------------------------------ constructor

\* The JavaScript values passed as `capacity`. A number is finite (the
\* fraction n/d, d > 0), NaN, Infinity or -Infinity.
Number(n, d) == [type |-> "number", kind |-> "finite", n |-> n, d |-> d]
NaN == [type |-> "number", kind |-> "nan", n |-> 0, d |-> 1]
Infinity == [type |-> "number", kind |-> "inf", n |-> 1, d |-> 1]
NegInfinity == [type |-> "number", kind |-> "-inf", n |-> -1, d |-> 1]
JsUndefined == [type |-> "undefined", kind |-> "nan", n |-> 0, d |-> 1]
JsObject == [type |-> "object", kind |-> "nan", n |-> 0, d |-> 1]
JsTrue == [type |-> "boolean", kind |-> "finite", n |-> 1, d |-> 1]
JsFalse == [type |-> "boolean", kind |-> "finite", n |-> 0, d |-> 1]

\* ToNumber: undefined and {} give NaN, true gives 1, false gives 0.
ToNumber(v) ==
  IF v.type \in {"undefined", "object"} THEN NaN
  ELSE [type |-> "number", kind |-> v.kind, n |-> v.n, d |-> v.d]

\* The global isFinite(v), which converts v to a number first.
isFinite(v) == ToNumber(v).kind = "finite"

\* Math.floor(v)
MathFloor(v) ==
  LET x == ToNumber(v) IN
  IF x.kind = "finite" THEN Number(x.n \div x.d, 1) ELSE x

\* a === b: the same type and, for numbers, the same value; NaN equals nothing.
StrictEquals(a, b) ==
  /\ a.type = b.type
  /\ a.kind = b.kind
  /\ a.kind # "nan"
  /\ a.n * b.d = b.n * a.d

\* v <= 0
LessOrEqualZero(v) ==
  LET x == ToNumber(v) IN
  \/ x.kind = "-inf"
  \/ x.kind = "finite" /\ x.n <= 0

\* A capacity test without the Math.floor comparison: fractions pass it.
InvalidCapacity_NoFloorTest(v) ==
  \/ ~isFinite(v)
  \/ LessOrEqualZero(v)

\* The constructor's test that throws "Capacity should be a finite positive integer."
InvalidCapacity(v) ==
  \/ ~isFinite(v)
  \/ ~StrictEquals(MathFloor(v), v)
  \/ LessOrEqualZero(v)

\* The fields the constructor sets for a capacity that passed its test.
Instance(capacity) ==
  [ capacity |-> capacity,
    width    |-> getPointerArray(Limbs(capacity)),
    forward  |-> [i \in Indices(capacity) |-> IF i \in Slots(capacity) THEN 0 ELSE Undefined],
    backward |-> [i \in Indices(capacity) |-> IF i \in Slots(capacity) THEN 0 ELSE Undefined],
    K        |-> [i \in Indices(capacity) |-> NoKey],
    V        |-> [i \in Indices(capacity) |-> NoValue],
    size     |-> 0,
    head     |-> 0,
    tail     |-> 0,
    items    |-> [n \in PropertyNames |-> NoProperty] ]

\* What `new LRUCache(v)` leaves when it throws.
NoInstance == [capacity |-> Undefined]

\* new LRUCache(v): the instance, or NoInstance when the constructor throws.
LRUCache(v) ==
  IF InvalidCapacity(v) THEN NoInstance
  ELSE IF getPointerArray(Limbs(v.n \div v.d)) = 0 THEN NoInstance
  ELSE Instance(v.n \div v.d)

\* ---------------------------------------------------------------- methods

\* A clear that resets the counters and keeps the old key index.
clear_KeepsItems(c) ==
  [c EXCEPT !.size = 0, !.head = 0, !.tail = 0]

clear(c) ==
  [c EXCEPT !.size = 0, !.head = 0, !.tail = 0,
            !.items = [n \in PropertyNames |-> NoProperty]]

splayOnTop(c, pointer) ==
  LET oldHead   == c.head
      previous  == c.backward[pointer]
      next      == c.forward[pointer]
      tail1     == IF c.tail = pointer THEN previous ELSE c.tail
      backward1 == IF c.tail = pointer THEN c.backward
                   ELSE StorePointer(c, c.backward, next, previous)
      forward1  == StorePointer(c, c.forward, previous, next)
      backward2 == StorePointer(c, backward1, oldHead, pointer)
      forward2  == StorePointer(c, forward1, pointer, oldHead)
  IN IF c.head = pointer THEN c
     ELSE [c EXCEPT !.tail = tail1, !.backward = backward2,
                    !.head = pointer, !.forward = forward2]

storeKeyValue(c, pointer, key, value) ==
  LET forward1  == StorePointer(c, c.forward, pointer, c.head)
      backward1 == StorePointer(c, c.backward, c.head, pointer)
  IN [c EXCEPT !.items[ToPropertyKey(key)] = pointer,
               !.K[pointer] = key,
               !.V[pointer] = value,
               !.forward = forward1,
               !.backward = backward1,
               !.head = pointer]

\* What a call leaves: the instance, the "evicted" notifications emitted,
\* and what the caller gets back.
Ret(kind, evicted, key, value) ==
  [kind |-> kind, evicted |-> evicted, key |-> key, value |-> value]

Void == Ret("void", FALSE, NoKey, NoValue)
Threw == Ret("throw", FALSE, NoKey, NoValue)
Null == Ret("null", FALSE, NoKey, NoValue)

Outcome(c, emitted, ret) == [c |-> c, emitted |-> emitted, ret |-> ret]

\* What the handlers subscribed with on("evicted", cb) do when a call
\* notifies them: the sequence of what they do at the first notification,
\* at a notification made while that one runs, and so on; at any further
\* one they return. At a notification they return, throw, or call set,
\* setpop, get or clear on the cache and then return.
Step(does, key, value) == [does |-> does, key |-> key, value |-> value]

Returns == <<>>
Throws == <<Step("throw", NoKey, NoValue)>>

\* The handlers that do not call the cache.
Handlers == {Returns, Throws}

\* The handlers over `keys` that call the cache, nested up to n deep.
RECURSIVE Reentering(_, _)
Reentering(keys, n) ==
  IF n = 0 THEN {Returns}
  ELSE {Returns} \cup
       { <<step>> \o rest :
           step \in {Step(m, k, v) : m \in {"set", "setpop"}, k \in keys, v \in Vals}
                    \cup {Step("get", k, NoValue) : k \in keys}
                    \cup {Step("clear", NoKey, NoValue)},
           rest \in Reentering(keys, n - 1) }

get(c, key) ==
  LET pointer == Lookup(c, key) IN
  IF pointer = Undefined
  THEN Outcome(c, <<>>, Ret("value", FALSE, NoKey, NoValue))
  ELSE LET c1 == splayOnTop(c, pointer) IN
       Outcome(c1, <<>>, Ret("value", FALSE, NoKey, c1.V[pointer]))

RECURSIVE set(_, _, _, _)
RECURSIVE setpop(_, _, _, _)
RECURSIVE emit(_, _)

\* this.events.emit("evicted", key, value) on the cache as the caller left
\* it: the cache the handlers leave, the notifications the calls they make
\* emit, and whether the handlers threw.
emit(c, handler) ==
  IF handler = Returns
  THEN [c |-> c, emitted |-> <<>>, threw |-> FALSE]
  ELSE LET step == Head(handler)
           rest == Tail(handler)
           o == CASE step.does = "set"    -> set(c, step.key, step.value, rest)
                  [] step.does = "setpop" -> setpop(c, step.key, step.value, rest)
                  [] step.does = "get"    -> get(c, step.key)
                  [] step.does = "clear"  -> Outcome(clear(c), <<>>, Void)
                  [] OTHER                -> Outcome(c, <<>>, Threw)
       IN [c |-> o.c, emitted |-> o.emitted, threw |-> o.ret = Threw]

set(c, key, value, handler) ==
  LET pointer == Lookup(c, key) IN
  IF pointer # Undefined
  THEN Outcome([splayOnTop(c, pointer) EXCEPT !.V[pointer] = value], <<>>, Void)
  ELSE IF c.size < c.capacity
  THEN Outcome(storeKeyValue([c EXCEPT !.size = c.size + 1], c.size, key, value),
               <<>>, Void)
  ELSE LET p  == c.tail
           c1 == [c EXCEPT !.tail = c.backward[p],
                           !.items[ToPropertyKey(c.K[p])] = NoProperty]
           ev == <<c.K[p], c.V[p]>>
           h  == emit(c1, handler)
       IN IF h.threw
          THEN Outcome(h.c, <<ev>> \o h.emitted, Threw)
          ELSE Outcome(storeKeyValue(h.c, p, key, value), <<ev>> \o h.emitted, Void)

\* A setpop that overwrites a present key in place, without splaying it
\* on top.
setpop_NoSplay(c, key, value, handler) ==
  LET pointer == Lookup(c, key) IN
  IF pointer # Undefined
  THEN Outcome([c EXCEPT !.V[pointer] = value], <<>>,
               Ret("outcome", FALSE, key, c.V[pointer]))
  ELSE set(c, key, value, handler)

setpop(c, key, value, handler) ==
  LET pointer == Lookup(c, key) IN
  IF pointer # Undefined
  THEN LET c1 == splayOnTop(c, pointer) IN
       Outcome([c1 EXCEPT !.V[pointer] = value], <<>>,
               Ret("outcome", FALSE, key, c1.V[pointer]))
  ELSE IF c.size < c.capacity
  THEN Outcome(storeKeyValue([c EXCEPT !.size = c.size + 1], c.size, key, value),
               <<>>, Null)
  ELSE LET p        == c.tail
           oldValue == c.V[p]
           oldKey   == c.K[p]
           c1 == [c EXCEPT !.tail = c.backward[p],
                           !.items[ToPropertyKey(c.K[p])] = NoProperty]
           ev == <<c.K[p], c.V[p]>>
           h  == emit(c1, handler)
       IN IF h.threw
          THEN Outcome(h.c, <<ev>> \o h.emitted, Threw)
          ELSE Outcome(storeKeyValue(h.c, p, key, value), <<ev>> \o h.emitted,
                       IF Truthy(oldKey)
                       THEN Ret("outcome", TRUE, oldKey, oldValue)
                       ELSE Null)

\* key in this.items
has(c, key) ==
  \/ c.items[ToPropertyKey(key)] # NoProperty
  \/ ToPropertyKey(key) \in ObjectPrototype

\* A peek that splays the pointer on top, as get does.
peek_Splays(c, key) ==
  LET pointer == Lookup(c, key) IN
  IF pointer = Undefined
  THEN Outcome(c, <<>>, Ret("value", FALSE, NoKey, NoValue))
  ELSE LET c1 == splayOnTop(c, pointer) IN
       Outcome(c1, <<>>, Ret("value", FALSE, NoKey, c1.V[pointer]))

peek(c, key) ==
  LET pointer == Lookup(c, key) IN
  IF pointer = Undefined
  THEN Outcome(c, <<>>, Ret("value", FALSE, NoKey, NoValue))
  ELSE Outcome(c, <<>>, Ret("value", FALSE, NoKey, c.V[pointer]))

\* -------------------------------------------------------------- iteration

\* The items keys() yields from cursor `pointer` after i of l were yielded.
RECURSIVE keysNext(_, _, _, _)
keysNext(c, pointer, i, l) ==
  IF i >= l THEN <<>>
  ELSE <<c.K[pointer]>> \o
       keysNext(c, IF i + 1 < l THEN c.forward[pointer] ELSE pointer, i + 1, l)

keys(c) == keysNext(c, c.head, 0, c.size)

RECURSIVE valuesNext(_, _, _, _)
valuesNext(c, pointer, i, l) ==
  IF i >= l THEN <<>>
  ELSE <<c.V[pointer]>> \o
       valuesNext(c, IF i + 1 < l THEN c.forward[pointer] ELSE pointer, i + 1, l)

values(c) == valuesNext(c, c.head, 0, c.size)

RECURSIVE entriesNext(_, _, _, _)
entriesNext(c, pointer, i, l) ==
  IF i >= l THEN <<>>
  ELSE << <<c.K[pointer], c.V[pointer]>> >> \o
       entriesNext(c, IF i + 1 < l THEN c.forward[pointer] ELSE pointer, i + 1, l)

entries(c) == entriesNext(c, c.head, 0, c.size)

\* [Symbol.iterator]() returns this.entries().
iterator(c) == entries(c)

\* ------------------------------------------------------------------- from

RECURSIVE fromLoop(_, _, _)
fromLoop(c, iterable, i) ==
  IF i > Len(iterable) THEN c
  ELSE fromLoop(set(c, iterable[i][1], iterable[i][2], Returns).c, iterable, i + 1)

\* LRUCache.from(iterable, capacity) on an array of [key, value] pairs: the
\* capacity defaults to iterable.size || iterable.length || 0.
from(iterable, capacity) ==
  LET cap == IF capacity.type = "undefined" THEN Number(Len(iterable), 1) ELSE capacity
      c   == LRUCache(cap)
  IN IF c = NoInstance THEN NoInstance ELSE fromLoop(c, iterable, 1)

\* ------------------------------------------------------------------ state

VARIABLES
  cache,    \* the LRUCache instance
  call,     \* the method last called on it
  ret,      \* what that call returned
  emitted,  \* the "evicted" notifications that call emitted
  args,     \* the arguments the instance is constructed with
  callers,  \* what the callers of this run pass: keys, handlers, pointers
  distinct  \* history: the distinct keys set since the cache was last empty
            \* (constructed or cleared), recorded up to `capacity` of them

vars == <<cache, call, ret, emitted, args, callers, distinct>>

Args(iterable, capacity) == [iterable |-> iterable, capacity |-> capacity]

\* The runs explored. Each draws its keys and handlers from one bounded
\* set: numbers and strings, among them 0 and the pair 1, "1"; strings with
\* the name of an inherited property among them; strings, with handlers
\* that may throw; strings, with handlers that call the cache; strings,
\* with direct calls of the public method splayOnTop on a number below
\* MaxCapacity (a slot, or a number beyond the slots of a smaller cache)
\* or on undefined.
Callers ==
  { [keys |-> {Num("0"), Num("1"), Str("1"), Str("a")},
     handlers |-> {Returns}, pointers |-> {}],
    [keys |-> {Str("a"), Str("b"), Str("toString")},
     handlers |-> {Returns}, pointers |-> {}],
    [keys |-> {Str("a"), Str("b"), Str("c")},
     handlers |-> Handlers, pointers |-> {}],
    [keys |-> {Str("a"), Str("b"), Str("c")},
     handlers |-> Reentering({Str("a"), Str("b"), Str("c")}, MaxNesting),
     pointers |-> {}],
    [keys |-> {Str("a"), Str("b")},
     handlers |-> {Returns},
     pointers |-> Slots(MaxCapacity) \cup {Undefined}] }

\* The state after new LRUCache(capacity).
Init ==
  /\ callers \in Callers
  /\ \E capacity \in 1 .. MaxCapacity :
       /\ args = Args(<<>>, Number(capacity, 1))
       /\ cache = LRUCache(Number(capacity, 1))
  /\ call = "new"
  /\ ret = Void
  /\ emitted = <<>>
  /\ distinct = {}

Apply(o, method) ==
  /\ cache' = o.c
  /\ ret' = o.ret
  /\ emitted' = o.emitted
  /\ call' = method
  /\ UNCHANGED <<args, callers>>

\* The history of distinct keys after a set or setpop of `key`.
Record(key) ==
  IF Cardinality(distinct) >= cache.capacity THEN distinct
  ELSE distinct \cup {key}

Set(key, value, handler) ==
  /\ Apply(set(cache, key, value, handler), "set")
  /\ distinct' = Record(key)

SetPop(key, value, handler) ==
  /\ Apply(setpop(cache, key, value, handler), "setpop")
  /\ distinct' = Record(key)

Get(key) == Apply(get(cache, key), "get") /\ UNCHANGED distinct

Peek(key) == Apply(peek(cache, key), "peek") /\ UNCHANGED distinct

Has(key) ==
  /\ Apply(Outcome(cache, <<>>, Ret("bool", has(cache, key), NoKey, NoValue)), "has")
  /\ UNCHANGED distinct

Clear ==
  /\ Apply(Outcome(clear(cache), <<>>, Void), "clear")
  /\ distinct' = {}

\* A direct call of splayOnTop(pointer).
SplayOnTop(pointer) ==
  /\ Apply(Outcome(splayOnTop(cache, pointer), <<>>, Void), "splayOnTop")
  /\ UNCHANGED distinct

Next ==
  \/ \E key \in callers.keys, value \in Vals, handler \in callers.handlers :
       Set(key, value, handler)
  \/ \E key \in callers.keys, value \in Vals, handler \in callers.handlers :
       SetPop(key, value, handler)
  \/ \E key \in callers.keys : Get(key)
  \/ \E key \in callers.keys : Peek(key)
  \/ \E key \in callers.keys : Has(key)
  \/ Clear
  \/ \E pointer \in callers.pointers : SplayOnTop(pointer)

Spec == Init /\ [][Next]_vars

\* ------------------------------------------------- the constructor alone

\* The values `new LRUCache(v)` is called with.
CapacityArgs ==
  {JsUndefined, JsObject, JsTrue, JsFalse, NaN, Infinity, NegInfinity}
    \cup {Number(n, d) : n \in (0 - MaxNumerator) .. MaxNumerator, d \in 1 .. 2}

\* No method is called on the instance in these runs.
NoCallers == [keys |-> {}, handlers |-> {}, pointers |-> {}]

InitNew ==
  /\ callers = NoCallers
  /\ distinct = {}
  /\ \E v \in CapacityArgs : args = Args(<<>>, v)
  /\ cache = NoInstance
  /\ call = "none"
  /\ ret = Void
  /\ emitted = <<>>

New ==
  /\ call = "none"
  /\ cache' = LRUCache(args.capacity)
  /\ ret' = IF cache' = NoInstance THEN Threw ELSE Void
  /\ call' = "new"
  /\ UNCHANGED <<emitted, args, callers, distinct>>

SpecNew == InitNew /\ [][New]_vars

\* ------------------------------------------------------ from(iterable)

Pairs == Keys \X Vals

RECURSIVE SeqsUpTo(_, _)
SeqsUpTo(S, n) ==
  IF n = 0 THEN {<<>>}
  ELSE LET shorter == SeqsUpTo(S, n - 1) IN
       shorter \cup {Append(q, x) : q \in {r \in shorter : Len(r) = n - 1}, x \in S}

InitFrom ==
  /\ callers = NoCallers
  /\ distinct = {}
  /\ \E iterable \in SeqsUpTo(Pairs, MaxPairs),
        capacity \in {JsUndefined} \cup {Number(n, 1) : n \in 1 .. MaxCapacity} :
       args = Args(iterable, capacity)
  /\ cache = NoInstance
  /\ call = "none"
  /\ ret = Void
  /\ emitted = <<>>

From ==
  /\ call = "none"
  /\ cache' = from(args.iterable, args.capacity)
  /\ ret' = IF cache' = NoInstance THEN Threw ELSE Void
  /\ call' = "from"
  /\ UNCHANGED <<emitted, args, callers, distinct>>

SpecFrom == InitFrom /\ [][From]_vars

\* ------------------------------------------- getPointerArray(size) alone

\* The sizes getPointerArray is called with: the first ones, and those
\* around 2^8, 2^16 and 2^32.
Sizes ==
  {<<0, n>> : n \in 1 .. MaxOffset}
    \cup {<<0, 2 ^ 8 + d>> : d \in (0 - MaxOffset) .. MaxOffset}
    \cup {<<0, Limb + d>> : d \in (0 - MaxOffset) .. (0 - 1)}
    \cup {<<1, d>> : d \in 0 .. MaxOffset}
    \cup {<<Limb - 1, Limb + d>> : d \in (0 - MaxOffset) .. (0 - 1)}
    \cup {<<Limb, d>> : d \in 0 .. MaxOffset}

\* The slot indices written into a pointer array made for `size`: the
\* first, the last two, and those around 2^8 and 2^16.
SlotIndices(size) ==
  {i \in {<<0, 0>>, Pred(size), Pred(Pred(size)),
          <<0, 2 ^ 8 - 1>>, <<0, 2 ^ 8>>, <<0, Limb - 1>>, <<1, 0>>} :
     Leq(<<0, 0>>, i) /\ Leq(i, Pred(size))}

InitWidth ==
  /\ callers = NoCallers
  /\ distinct = {}
  /\ \E size \in Sizes : args = Args(<<>>, size)
  /\ cache = NoInstance
  /\ call = "none"
  /\ ret = Void
  /\ emitted = <<>>

\* const PointerArray = getPointerArray(capacity): the class chosen, held
\* as its width.
GetPointerArray ==
  /\ call = "none"
  /\ LET width == getPointerArray(args.capacity) IN
       /\ cache' = IF width = 0 THEN NoInstance
                   ELSE [capacity |-> args.capacity, width |-> width]
       /\ ret' = IF width = 0 THEN Threw ELSE Void
  /\ call' = "getPointerArray"
  /\ UNCHANGED <<emitted, args, callers, distinct>>

\* Whether the host can allocate an array of 2^31 elements or more is not
\* decided by the code: new PointerArray(size) makes it or throws a
\* RangeError.
AllocationMayFail(size) == size[1] >= 2 ^ 15

\* this.forward = new PointerArray(capacity);
\* this.backward = new PointerArray(capacity)
NewPointerArray ==
  /\ call = "getPointerArray"
  /\ cache # NoInstance
  /\ \/ /\ cache' = [capacity |-> cache.capacity, width |-> cache.width,
                      forward |-> <<>>]
        /\ ret' = Void
     \/ /\ AllocationMayFail(cache.capacity)
        /\ cache' = NoInstance
        /\ ret' = Threw
  /\ call' = "new PointerArray"
  /\ UNCHANGED <<emitted, args, callers, distinct>>

\* this.K = new Array(capacity); this.V = new Array(capacity): an array
\* length is at most 2^32 - 1, and new Array throws a RangeError beyond.
NewArray ==
  /\ call = "new PointerArray"
  /\ cache # NoInstance
  /\ IF Leq(cache.capacity, <<Limb - 1, Limb - 1>>)
       THEN cache' = cache /\ ret' = Void
       ELSE cache' = NoInstance /\ ret' = Threw
  /\ call' = "new Array"
  /\ UNCHANGED <<emitted, args, callers, distinct>>

\* this.forward[i] = pointer: cache.forward holds the cell written, as
\* <<i, pointer written, pointer stored>>.
WritePointer(i, pointer) ==
  /\ call = "new Array"
  /\ cache # NoInstance
  /\ cache' = [cache EXCEPT
                 !.forward = <<i, pointer, ToUintLimbs(pointer, cache.width)>>]
  /\ call' = "write"
  /\ UNCHANGED <<ret, emitted, args, callers, distinct>>

NextWidth ==
  \/ GetPointerArray
  \/ NewPointerArray
  \/ NewArray
  \/ \E i, pointer \in SlotIndices(args.capacity) : WritePointer(i, pointer)

SpecWidth == InitWidth /\ [][NextWidth]_vars

\* ----------------------------------------------------------- observations

Range(q) == {q[i] : i \in 1 .. Len(q)}

\* The keys a caller sees in the cache: those keys() yields.
LiveKeys(c) == Range(keys(c))

\* q without its last element.
Front(q) == SubSeq(q, 1, Len(q) - 1)

\* The entries of q whose key is not k, in q's order.
Without(q, k) == SelectSeq(q, LAMBDA e : e[1] # k)

IsMutation(method) == method \in {"set", "setpop"}

\* The use the claims speak of: the calls made are set, setpop, get, peek,
\* has and clear, and the handlers return or throw without calling the
\* cache (a handler that changes the cache during a notification is left
\* unsupported).
ClaimedUse ==
  /\ callers.pointers = {}
  /\ callers.handlers \subseteq Handlers

\* --------------------------------------------------------------- claims

\* The step C1 requires of a call.
C1_SizeWithinCapacity_Step ==
      /\ 0 <= cache'.size
      /\ cache'.size <= cache'.capacity
      /\ (Cardinality(distinct') >= cache'.capacity => cache'.size = cache'.capacity)
      /\ (cache.size = cache.capacity /\ call' # "clear"
            => cache'.size = cache'.capacity)

\* C1: 0 <= size <= capacity after every call; once `capacity` distinct keys
\* have been set on an empty cache size equals capacity, and only clear
\* lowers it again.
C1_SizeWithinCapacity ==
  [][ClaimedUse => C1_SizeWithinCapacity_Step]_vars

\* The step C2 requires of a call.
C2_EvictsExactlyTheLast_Step ==
      \A key \in callers.keys, value \in Vals, handler \in callers.handlers :
        ( /\ Set(key, value, handler) \/ SetPop(key, value, handler)
          /\ ret'.kind # "throw"
          /\ key \notin LiveKeys(cache)
          /\ cache.size = cache.capacity )
        => /\ entries(cache') = << <<key, value>> >> \o Front(entries(cache))
           /\ cache'.size = cache'.capacity

\* C2: set or setpop of a key that is not live, on a full cache, drops the
\* last entry and no other: entries() becomes [k, v] followed by the
\* previous entries without the last, and size stays capacity.
C2_EvictsExactlyTheLast ==
  [][ClaimedUse => C2_EvictsExactlyTheLast_Step]_vars

\* The entries of c that a step to d removed: their keys are live in c and
\* not in d.
Evicted(c, d) == {e \in Range(entries(c)) : e[1] \notin LiveKeys(d)}

\* The step C3 requires of a call.
C3_NotificationsAreEvictions_Step ==
      IF IsMutation(call')
      THEN ret'.kind # "throw"
           => \/ Evicted(cache, cache') = {} /\ emitted' = <<>>
              \/ \E e \in Evicted(cache, cache') :
                   Evicted(cache, cache') = {e} /\ emitted' = <<e>>
      ELSE emitted' = <<>>

\* C3: a set or setpop that evicts delivers exactly one notification, with
\* the evicted entry's key and value; a set or setpop that evicts nothing,
\* and get, peek, has and clear, deliver none.
C3_NotificationsAreEvictions ==
  [][ClaimedUse => C3_NotificationsAreEvictions_Step]_vars

\* The step C4 requires of a call.
C4_SetAndGetPromote_Step ==
      /\ \A key \in callers.keys, value \in Vals, handler \in callers.handlers :
          (Set(key, value, handler) /\ ret'.kind # "throw")
          => /\ Len(entries(cache')) >= 1
             /\ Head(entries(cache')) = <<key, value>>
             /\ Tail(entries(cache')) =
                  IF key \in LiveKeys(cache) \/ cache.size < cache.capacity
                  THEN Without(entries(cache), key)
                  ELSE Front(entries(cache))
      /\ \A key \in callers.keys :
          (Get(key) /\ key \in LiveKeys(cache))
          => /\ Len(entries(cache')) >= 1
             /\ Head(entries(cache'))[1] = key
             /\ Tail(entries(cache')) = Without(entries(cache), key)

\* C4: after set(k, v), and after get(k) of a live key, k is first in
\* entries() and the other entries keep their order and values.
C4_SetAndGetPromote ==
  [][ClaimedUse => C4_SetAndGetPromote_Step]_vars

\* C5: peek and has change nothing of the cache (size, live keys, values,
\* head, tail, the order of entries()) and deliver no notification.
C5_PeekAndHasChangeNothing ==
  [][ call' \in {"peek", "has"}
      => /\ cache'.size = cache.size
         /\ cache'.head = cache.head
         /\ cache'.tail = cache.tail
         /\ entries(cache') = entries(cache)
         /\ \A key \in Keys : has(cache', key) = has(cache, key)
         /\ cache' = cache
         /\ emitted' = <<>> ]_vars

\* C5 witness: peek has returned the value of a live key of a cache that
\* holds two entries.
C5_Witness ==
  /\ call = "peek"
  /\ ret.value # NoValue
  /\ cache.size = 2

\* The step C6 requires of a call.
C6_SetpopOutcomes_Step ==
      \A key \in callers.keys, value \in Vals, handler \in callers.handlers :
        (SetPop(key, value, handler) /\ ret'.kind # "throw")
        => LET live == key \in LiveKeys(cache)
               full == cache.size = cache.capacity
               es   == entries(cache)
           IN /\ (ret' = Null) <=> (~live /\ ~full)
              /\ (ret' = Ret("outcome", FALSE, key, peek(cache, key).ret.value)) <=> live
              /\ ( /\ Len(es) >= 1
                   /\ ret' = Ret("outcome", TRUE, es[Len(es)][1], es[Len(es)][2])
                   /\ es[Len(es)][1] # key ) <=> (~live /\ full)

\* C6: setpop(k, v) returns null exactly when k was not live and the cache
\* not full; evicted: false with k and its previous value exactly when k
\* was live; evicted: true with the displaced key and value exactly when k
\* was not live and the cache was full.
C6_SetpopOutcomes ==
  [][ClaimedUse => C6_SetpopOutcomes_Step]_vars

\* A finite positive integer number.
PositiveInteger(v) ==
  /\ v.type = "number"
  /\ v.kind = "finite"
  /\ v.n % v.d = 0
  /\ v.n > 0

\* C7: new LRUCache(c) throws and leaves no instance unless c is a finite
\* positive integer number, and otherwise yields an instance of capacity c
\* and size 0.
C7_ConstructorValidatesCapacity ==
  call = "new" =>
    IF PositiveInteger(args.capacity)
    THEN /\ cache # NoInstance
         /\ ret = Void
         /\ cache.capacity * args.capacity.d = args.capacity.n
         /\ cache.size = 0
    ELSE /\ cache = NoInstance
         /\ ret = Threw

\* C7 witness: the constructor was called with `true` and threw.
C7_Witness ==
  /\ call = "new"
  /\ args.capacity = JsTrue
  /\ ret = Threw

\* C8: after clear(), size is 0, every key that was live is absent for
\* has, get and peek, keys(), values() and entries() are empty, capacity is
\* unchanged and no notification was delivered.
C8_ClearEmpties ==
  [][ call' = "clear"
      => /\ cache'.size = 0
         /\ \A key \in LiveKeys(cache) :
              /\ ~has(cache', key)
              /\ get(cache', key).ret.value = NoValue
              /\ peek(cache', key).ret.value = NoValue
         /\ keys(cache') = <<>>
         /\ values(cache') = <<>>
         /\ entries(cache') = <<>>
         /\ cache'.capacity = cache.capacity
         /\ emitted' = <<>> ]_vars

\* C8 witness: clear() has run on a cache that held entries, whose keys
\* remain in the storage arrays.
C8_Witness ==
  /\ call = "clear"
  /\ cache.K[0] # NoKey
  /\ cache.size = 0

\* The state C9 requires.
C9_IteratorsAgree_State ==
  LET ks == keys(cache)
      vs == values(cache)
      es == entries(cache)
  IN /\ Len(ks) = cache.size
     /\ Len(vs) = cache.size
     /\ Len(es) = cache.size
     /\ \A i \in 1 .. cache.size : es[i] = <<ks[i], vs[i]>>
     /\ \A i, j \in 1 .. cache.size : i # j => ks[i] # ks[j]
     /\ iterator(cache) = es

\* C9: keys(), values() and entries() each yield exactly size items, the
\* i-th key and value are the i-th entry, no key is yielded twice, and
\* iterating the cache yields what entries() yields.
C9_IteratorsAgree ==
  ClaimedUse => C9_IteratorsAgree_State

\* The distinct keys of pairs, latest last occurrence first, each with the
\* value of its last occurrence.
RECURSIVE LastOccurrences(_)
LastOccurrences(pairs) ==
  IF pairs = <<>> THEN <<>>
  ELSE LET last == pairs[Len(pairs)] IN
       <<last>> \o Without(LastOccurrences(Front(pairs)), last[1])

\* C10: from(pairs) without a capacity, on n >= 1 pairs, yields a cache of
\* capacity n whose entries() are the distinct keys of pairs, latest last
\* occurrence first, each with its last value.
C10_FromKeepsLastOccurrences ==
  (call = "from" /\ args.capacity = JsUndefined /\ Len(args.iterable) >= 1)
  => /\ cache # NoInstance
     /\ cache.capacity = Len(args.iterable)
     /\ entries(cache) = LastOccurrences(args.iterable)

\* The step C11 requires of a call.
C11_HandlerFailureAfterCommit_Step ==
      \A key \in callers.keys, value \in Vals :
        ( /\ Set(key, value, Throws) \/ SetPop(key, value, Throws)
          /\ ret'.kind = "throw" )
        => /\ cache' = set(cache, key, value, Returns).c
           /\ Len(entries(cache')) >= 1
           /\ Head(entries(cache')) = <<key, value>>
           /\ has(cache', key)
           /\ \A e \in Range(emitted') : ~has(cache', e[1])
           /\ cache'.size = cache'.capacity
           /\ cache'.size =
                Cardinality({n \in PropertyNames : cache'.items[n] # NoProperty})

\* C11: when a handler fails during a set or setpop that evicts, the caller
\* sees the failure with the new entry committed: the cache is in the state
\* the same call leaves when the handler returns, the new key is first in
\* entries() with its value, the evicted key is gone, and size is capacity
\* and the number of keys in the index.
C11_HandlerFailureAfterCommit ==
  [][ClaimedUse => C11_HandlerFailureAfterCommit_Step]_vars

\* C12: in every state has(k) is true exactly when k is live (keys() yields
\* it), get(k) and peek(k) return the value entries() pairs with k when k is
\* live and nothing otherwise; on a new or cleared cache has(k) is false and
\* get(k), peek(k) return nothing for every k; and after set or setpop of
\* (k, v), get(k) and peek(k) return v.
C12_IndexIsTruth ==
  /\ [](ClaimedUse => \A key \in Keys :
          LET live == key \in LiveKeys(cache) IN
          /\ has(cache, key) <=> live
          /\ ~live => /\ get(cache, key).ret.value = NoValue
                      /\ peek(cache, key).ret.value = NoValue
          /\ live => \E e \in Range(entries(cache)) :
                       /\ e[1] = key
                       /\ get(cache, key).ret.value = e[2]
                       /\ peek(cache, key).ret.value = e[2]
          /\ call \in {"new", "clear"}
               => /\ ~has(cache, key)
                  /\ get(cache, key).ret.value = NoValue
                  /\ peek(cache, key).ret.value = NoValue)
  /\ [][ \A key \in callers.keys, value \in Vals, handler \in callers.handlers :
           ( /\ ClaimedUse
             /\ Set(key, value, handler) \/ SetPop(key, value, handler)
             /\ ret'.kind # "throw" )
           => /\ get(cache', key).ret.value = value
              /\ peek(cache', key).ret.value = value ]_vars

\* C13: in every state, set(k, v) and setpop(k, v) leave the same cache
\* (size, keys, values, links, head, tail, index) and emit the same
\* notifications, whether the handlers return, throw or call the cache.
C13_SetAndSetpopAgree ==
  \A key \in callers.keys, value \in Vals, handler \in callers.handlers :
    LET s == set(cache, key, value, handler)
        p == setpop(cache, key, value, handler)
    IN /\ s.c = p.c
       /\ s.emitted = p.emitted
       /\ (s.ret = Threw) <=> (p.ret = Threw)

\* C13 witness: setpop has evicted an entry of a cache of capacity 2 and
\* reported it.
C13_Witness ==
  /\ call = "setpop"
  /\ ret.kind = "outcome"
  /\ ret.evicted
  /\ cache.capacity = 2
  /\ Len(emitted) = 1

\* The step C14 requires of a call.
C14_GetMissChangesNothing_Step ==
      \A key \in callers.keys :
        (Get(key) /\ key \notin LiveKeys(cache))
        => /\ ret' = Ret("value", FALSE, NoKey, NoValue)
           /\ cache' = cache
           /\ entries(cache') = entries(cache)
           /\ emitted' = <<>>

\* C14: get(k) of a key that is not live raises nothing, returns nothing
\* and leaves the cache as it was (size, keys, values, order, head, tail),
\* with no notification.
C14_GetMissChangesNothing ==
  [][ClaimedUse => C14_GetMissChangesNothing_Step]_vars

\* The slots reached from head by following forward pointers: the walk of
\* n slots, as far as it stays on slots of the storage arrays.
RECURSIVE Walk(_, _, _)
Walk(c, pointer, n) ==
  IF n = 0 \/ pointer \notin Slots(c.capacity) THEN <<>>
  ELSE <<pointer>> \o Walk(c, c.forward[pointer], n - 1)

\* The chain of c: the walk of size slots from head.
Chain(c) == Walk(c, c.head, c.size)

\* The state C15 requires.
C15_ChainIsSimplePath_State ==
  cache.size > 0 =>
    LET ch == Chain(cache) IN
    /\ Len(ch) = cache.size
    /\ \A i, j \in 1 .. Len(ch) : i # j => ch[i] # ch[j]
    /\ ch[Len(ch)] = cache.tail
    /\ \A i, j \in 1 .. (Len(ch) - 1) :
         i # j => cache.forward[ch[i]] # cache.forward[ch[j]]

\* C15: when size > 0, following forward pointers from head size - 1 times
\* visits size pairwise distinct slots and ends at tail, and no two slots of
\* the walk are followed by the same slot.
C15_ChainIsSimplePath ==
  ClaimedUse => C15_ChainIsSimplePath_State

\* The keys has() reports through an own entry of the index.
Indexed(c) == {k \in Keys : c.items[ToPropertyKey(k)] # NoProperty}

\* The state C16 requires.
C16_IndexMatchesChain_State ==
  LET names == {n \in PropertyNames : cache.items[n] # NoProperty} IN
  /\ Cardinality(names) = cache.size
  /\ Cardinality(Indexed(cache)) = cache.size
  /\ \A m, n \in names : m # n => cache.items[m] # cache.items[n]
  /\ \A k \in Indexed(cache) : cache.K[cache.items[ToPropertyKey(k)]] = k
  /\ {cache.items[n] : n \in names} = Range(Chain(cache))

\* C16: the key index holds exactly size keys, maps distinct keys to
\* distinct slots, the key stored at the slot of an indexed key is that key,
\* and the slots it maps to are exactly the slots of the chain.
C16_IndexMatchesChain ==
  ClaimedUse => C16_IndexMatchesChain_State

\* The slots reached from tail by following backward pointers, as far as
\* the walk of n slots stays on slots of the storage arrays.
RECURSIVE WalkBack(_, _, _)
WalkBack(c, pointer, n) ==
  IF n = 0 \/ pointer \notin Slots(c.capacity) THEN <<>>
  ELSE <<pointer>> \o WalkBack(c, c.backward[pointer], n - 1)

Reverse(q) == [i \in 1 .. Len(q) |-> q[Len(q) + 1 - i]]

\* The state C17 requires.
C17_BackwardInvertsForward_State ==
  LET ch == Chain(cache)
      bk == WalkBack(cache, cache.tail, cache.size)
  IN /\ Len(ch) = cache.size
     /\ \A i \in 1 .. (Len(ch) - 1) :
          cache.backward[cache.forward[ch[i]]] = ch[i]
     /\ bk = Reverse(ch)
     /\ cache.size > 0 => bk[Len(bk)] = cache.head

\* C17: for every chain slot s other than tail, backward[forward[s]] = s;
\* walking backward from tail visits the slots of the chain in reverse
\* order and ends at head.
C17_BackwardInvertsForward ==
  ClaimedUse => C17_BackwardInvertsForward_State

\* The step C18 requires of a call.
C18_CapacityOne_Step ==
      cache.capacity = 1
      => /\ cache'.head = cache'.tail
         /\ cache'.head \in Slots(1)
         /\ \A key \in callers.keys, value \in Vals, handler \in callers.handlers :
              /\ (Set(key, value, handler) /\ ret'.kind # "throw")
                 => entries(cache') = << <<key, value>> >>
              /\ ( /\ Set(key, value, handler) \/ SetPop(key, value, handler)
                   /\ cache.size = 1
                   /\ LiveKeys(cache) # {key} )
                 => /\ emitted' = entries(cache)
                    /\ LiveKeys(cache') \cap LiveKeys(cache) = {}
         /\ \A key \in callers.keys :
              (Get(key) /\ LiveKeys(cache) = {key})
              => /\ ret'.value = values(cache)[1]
                 /\ cache' = cache

\* C18: with capacity 1, head and tail are the same slot; after set(k, v)
\* entries() is [[k, v]]; a set or setpop of a key other than the one live
\* key evicts that key with one notification; get of the live key returns
\* its value and changes nothing.
C18_CapacityOne ==
  [][ClaimedUse => C18_CapacityOne_Step]_vars

\* The calls a caller of this run can make on the cache.
Calls ==
  {[method |-> m, key |-> k, value |-> v, handler |-> h] :
     m \in {"set", "setpop"}, k \in callers.keys, v \in Vals, h \in callers.handlers}
  \cup
  {[method |-> m, key |-> k, value |-> NoValue, handler |-> Returns] :
     m \in {"get", "peek", "has"}, k \in callers.keys}

\* What the call op leaves of c.
Invoke(c, op) ==
  CASE op.method = "set"    -> set(c, op.key, op.value, op.handler)
    [] op.method = "setpop" -> setpop(c, op.key, op.value, op.handler)
    [] op.method = "get"    -> get(c, op.key)
    [] op.method = "peek"   -> peek(c, op.key)
    [] op.method = "has"    -> Outcome(c, <<>>, Ret("bool", has(c, op.key), NoKey, NoValue))

\* Every sequence of up to n calls returns the same, notifies the same and
\* leaves the same size and entries() on c as on d.
RECURSIVE SameBehaviour(_, _, _)
SameBehaviour(c, d, n) ==
  \/ n = 0
  \/ \A op \in Calls :
       LET o1 == Invoke(c, op)
           o2 == Invoke(d, op)
       IN /\ o1.ret = o2.ret
          /\ o1.emitted = o2.emitted
          /\ o1.c.size = o2.c.size
          /\ entries(o1.c) = entries(o2.c)
          /\ SameBehaviour(o1.c, o2.c, n - 1)

\* The state C19 requires.
C19_ClearedIsNew_State ==
  call = "clear" => SameBehaviour(cache, Instance(cache.capacity), MaxDepth)

\* C19: after clear(), every sequence of calls (here up to MaxDepth of
\* them) behaves as on a newly constructed cache of the same capacity.
C19_ClearedIsNew ==
  ClaimedUse => C19_ClearedIsNew_State

\* The step C20 requires of a call.
C20_KeysAreOpaque_Step ==
      /\ \A key \in callers.keys, value \in Vals, handler \in callers.handlers :
          ( /\ Set(key, value, handler) \/ SetPop(key, value, handler)
            /\ ret'.kind # "throw" )
          => /\ \A other \in Keys \ {key} :
                  /\ ~has(cache, other) => ~has(cache', other)
                  /\ has(cache', other)
                       => peek(cache', other).ret.value = peek(cache, other).ret.value
             /\ (key \notin LiveKeys(cache) /\ cache.size < cache.capacity)
                  => cache'.size = cache.size + 1
      /\ \A key \in callers.keys :
          Get(key)
          => /\ \A other \in Keys \ {key} :
                  peek(cache', other).ret.value = peek(cache, other).ret.value
             /\ (Len(entries(cache')) >= 1 /\ entries(cache') # entries(cache))
                  => Head(entries(cache'))[1] = key

\* C20: keys are separate entries unless they are equal values: a set or
\* setpop of one key makes no other key present, changes the value of no
\* other key, and a key that was not live adds one to size (up to
\* capacity); a get of one key promotes no other key.
C20_KeysAreOpaque ==
  [][ClaimedUse => C20_KeysAreOpaque_Step]_vars

\* a <= hi * 2^16 + lo, for a held on limbs.
AtMost(a, hi, lo) == a[1] < hi \/ (a[1] = hi /\ a[2] <= lo)

\* C21: getPointerArray(capacity) chooses 8 bits exactly when
\* capacity - 1 <= 255, 16 bits exactly when 255 < capacity - 1 <= 65535,
\* 32 bits exactly when 65535 < capacity - 1 <= 4294967295, and throws
\* exactly when capacity - 1 > 4294967295; a slot index below capacity
\* written into a cell of the array is read back unchanged.
C21_NarrowestPointerWidth ==
  LET maxIndex == Pred(args.capacity)
      chosen   == cache # NoInstance
  IN /\ call = "getPointerArray" =>
          /\ (chosen /\ cache.width = 8) <=> AtMost(maxIndex, 0, 255)
          /\ (chosen /\ cache.width = 16)
               <=> (~AtMost(maxIndex, 0, 255) /\ AtMost(maxIndex, 0, 65535))
          /\ (chosen /\ cache.width = 32)
               <=> (~AtMost(maxIndex, 0, 65535) /\ AtMost(maxIndex, 65535, 65535))
          /\ (~chosen /\ ret = Threw) <=> ~AtMost(maxIndex, 65535, 65535)
     /\ call = "write" => cache.forward[3] = cache.forward[2]

\* C21 witness: the last slot index, 2^16, of an array made for 2^16 + 1
\* slots was written into a cell of 32 bits.
C21_Witness ==
  /\ call = "write"
  /\ args.capacity = <<1, 1>>
  /\ cache.width = 32
  /\ cache.forward[2] = <<1, 0>>

====
